---- MODULE Spec2Model ----
(***************************************************************************)
(* SEGAN speech-enhancement recipe (recipes/Voicebank/enhance/segan/train/ *)
(* train.py): the block segmenter of fit_batch / evaluate_batch, the       *)
(* three-step adversarial update of SEBrain.fit_batch, the evaluation     *)
(* pass of SEBrain.evaluate_batch with the files a TEST stage writes, the  *)
(* stage hooks on_stage_start / on_stage_end under the epochs of the outer *)
(* driver, and the set-up done by dataio_prep and init_optimizers.         *)
(*                                                                         *)
(* Tensors are records [shape, data]: data is the row-major flat content   *)
(* (a sequence of numel entries), as in a contiguous torch tensor.         *)
(* The latent_vae branch of fit_batch (z_mean, z_logvar) only feeds the    *)
(* opaque cost of the third step and is left out.                          *)
(***************************************************************************)
EXTENDS Integers, Sequences, FiniteSets, TLC

VARIABLES
    frame,      \* locals of the segmenter run under observation (SpecSeg)
    stage,      \* stage set by the last on_stage_start ("NONE" before any)
    metrics,    \* the MetricStats accumulators created by on_stage_start
    params_d,   \* discriminator parameters: their version, one more per update
    params_g,   \* generator parameters: their version, one more per update
    grad_d,     \* .grad of the discriminator parameters (set of contributions)
    grad_g,     \* .grad of the generator parameters (set of contributions)
    files,      \* enhanced audio files written so far (named by id)
    call,       \* the last completed fit_batch / evaluate_batch call
    nbatch,     \* number of batches processed so far
    train_loss, \* self.train_loss (absent until a TRAIN stage end sets it)
    train_stats,\* self.train_stats (absent until a TRAIN stage end sets it)
    logs,       \* what the train logger and the tensorboard logger were given
    ckpts,      \* the checkpointer: checkpoints kept, and all those ever saved
    driver,     \* where the outer driver (Brain.fit / Brain.evaluate) stands
    epoch,      \* the driver's epoch counter (epoch_counter.current)
    hparams,    \* the hyperparameters dataio_prep and on_stage_end read
    datasets,   \* the train annotation and the train set dataio_prep returns
    optimizers  \* opt_class, checkpointer, and what init_optimizers builds

endVars == <<train_loss, train_stats, logs, ckpts>>

setupVars == <<hparams, datasets, optimizers>>

vars == <<frame, stage, metrics, params_d, params_g, grad_d, grad_g, files, call,
          nbatch, train_loss, train_stats, logs, ckpts, driver, epoch,
          hparams, datasets, optimizers>>

trainVars == <<stage, metrics, params_d, params_g, grad_d, grad_g, files, call,
               nbatch, endVars, driver, epoch, setupVars>>

(***************************************************************************)
(* Program constant and model bounds                                       *)
(***************************************************************************)
BlockSize == 16384

MaxBatch == 2

MaxBlocks == 1

MaxCalls == 2

(***************************************************************************)
(* Tensor primitives.  Flat index p (0-based, row-major) is data[p + 1].   *)
(***************************************************************************)
RECURSIVE Prod(_)
Prod(shape) == IF shape = <<>> THEN 1 ELSE Head(shape) * Prod(Tail(shape))

Tensor(shape, data) == [shape |-> shape, data |-> data]

Min(a, b) == IF a < b THEN a ELSE b

\* torch.zeros(d0, d1, d2)
Zeros(shape) == Tensor(shape, [k \in 1 .. Prod(shape) |-> 0])

\* torch.unsqueeze(t, -1): a trailing dimension of size 1, same content
Unsqueeze(t) == Tensor(Append(t.shape, 1), t.data)

\* torch.reshape(t, shape): same flat content; a RuntimeError when the
\* element counts differ
ReshapeOk(shape_from, shape_to) == Prod(shape_to) = Prod(shape_from)

Reshape(t, shape) == Tensor(shape, t.data)

\* dst[:, :n, :] = src for dst of shape (d0, d1, c): src must have the shape
\* (d0, min(n, d1), c) of the slice
SliceAssignOk(dst_shape, n, src_shape) ==
    src_shape = <<dst_shape[1], Min(n, dst_shape[2]), dst_shape[3]>>

\* the slice taken at the end of the rows: dst[:, -n:, :] = src
RECURSIVE SliceAssignRowsTail(_, _, _, _, _, _)
SliceAssignRowsTail(dst_data, d0, row, w, src_data, i) ==
    IF i >= d0 THEN <<>>
    ELSE SubSeq(dst_data, i * row + 1, (i + 1) * row - w)
         \o SubSeq(src_data, i * w + 1, (i + 1) * w)
         \o SliceAssignRowsTail(dst_data, d0, row, w, src_data, i + 1)

\* rows i .. d0-1 of the assigned tensor: the first w positions of a row come
\* from src, the rest of the row stays as it is in dst
RECURSIVE SliceAssignRows(_, _, _, _, _, _)
SliceAssignRows(dst_data, d0, row, w, src_data, i) ==
    IF i >= d0 THEN <<>>
    ELSE SubSeq(src_data, i * w + 1, (i + 1) * w)
         \o SubSeq(dst_data, i * row + w + 1, (i + 1) * row)
         \o SliceAssignRows(dst_data, d0, row, w, src_data, i + 1)

SliceAssign(dst, n, src) ==
    LET c == dst.shape[3]
    IN  Tensor(dst.shape,
               SliceAssignRows(dst.data, dst.shape[1], dst.shape[2] * c,
                               Min(n, dst.shape[2]) * c, src.data, 0))

\* t[:, :n] for 2-d t
RECURSIVE SliceColsRows(_, _, _, _, _)
SliceColsRows(data, d0, row, w, i) ==
    IF i >= d0 THEN <<>>
    ELSE SubSeq(data, i * row + 1, i * row + w)
         \o SliceColsRows(data, d0, row, w, i + 1)

SliceCols(t, n) ==
    LET w == Min(n, t.shape[2])
    IN  Tensor(<<t.shape[1], w>>,
               SliceColsRows(t.data, t.shape[1], t.shape[2], w, 0))

\* a // b + 1
CeilFloorPlusOne(a, b) == (a \div b) + 1

\* math.ceil(a / b) for a >= 0, b > 0
Ceil(a, b) == IF a % b = 0 THEN a \div b ELSE (a \div b) + 1

\* torch.cat((a, b), -1) of 3-d tensors: the shapes must agree but for the
\* last dimension, which adds up
CatOk(a_shape, b_shape) ==
    /\ Len(a_shape) = 3 /\ Len(b_shape) = 3
    /\ a_shape[1] = b_shape[1] /\ a_shape[2] = b_shape[2]

CatShape(a_shape, b_shape) == <<a_shape[1], a_shape[2], a_shape[3] + b_shape[3]>>

(***************************************************************************)
(* Batches: N examples with ids, a noisy and a clean waveform of the same  *)
(* (padded) length L.  Sample values are integers; two content patterns:   *)
(* "ramp" gives every sample of the batch its own non-zero value, "tern"   *)
(* cycles through -1, 0, 1 (zeros inside the signal).  The noisy sample is *)
(* the negated clean sample.  A batch is named by its key (n, len, pat).   *)
(***************************************************************************)
Patterns == {"ramp", "tern"}

Offsets == {-1, 0, 1}

MaxLen == MaxBlocks * BlockSize + 1

Lengths == {l \in {k * BlockSize + d : k \in 0 .. MaxBlocks, d \in Offsets} : l >= 0}

\* sample j of example i (both 0-based) of the clean waveform
Sample(pat, i, j) ==
    IF pat = "ramp" THEN i * (MaxLen + 1) + j + 1 ELSE ((i + j) % 3) - 1

WavTensor(n, len, pat, sign) ==
    Tensor(<<n, len>>,
           [k \in 1 .. (n * len) |->
               sign * Sample(pat, (k - 1) \div len, (k - 1) % len)])

\* batch.id, batch.noisy_sig[0], batch.clean_sig[0]
Batch(n, len, pat) ==
    [id        |-> [i \in 1 .. n |-> i],
     noisy_sig |-> WavTensor(n, len, pat, -1),
     clean_sig |-> WavTensor(n, len, pat, 1)]

\* the ids and shapes of a batch without the samples: all that the training
\* and evaluation loops read of it outside the segmenter
BatchMeta(n, len) ==
    [id        |-> [i \in 1 .. n |-> i],
     noisy_sig |-> [shape |-> <<n, len>>],
     clean_sig |-> [shape |-> <<n, len>>]]

NoKey == [n |-> 0, len |-> 0, pat |-> "none"]

BatchOf(key) == Batch(key.n, key.len, key.pat)

BatchKeys == {[n |-> n, len |-> len, pat |-> pat] :
                 n \in 1 .. MaxBatch, len \in Lengths, pat \in Patterns}

(***************************************************************************)
(* Block segmenter                                                         *)
(***************************************************************************)
\* batch_size = noisy_wavs.shape[0]; wav_size = noisy_wavs.shape[1]
\* num_blocks = ceil(wav_size / 16384)
Sizes(batch) ==
    LET noisy3 == Append(batch.noisy_sig.shape, 1)
    IN  [batch_size |-> noisy3[1],
         wav_size   |-> noisy3[2],
         num_blocks |-> Ceil(noisy3[2], BlockSize)]

PaddedShape(sz) == <<sz.batch_size, sz.num_blocks * BlockSize, 1>>

BlockShape(sz) == <<sz.batch_size * sz.num_blocks, BlockSize, 1>>

\* zeros = torch.zeros(batch_size, num_blocks * 16384, 1)
\* zeros[:, :wav_size, :] = wavs
\* wavs = zeros.clone(); wavs = torch.reshape(wavs, (batch_size * num_blocks, 16384, 1))
PadToBlocksOk(wavs_shape, sz) ==
    /\ SliceAssignOk(PaddedShape(sz), sz.wav_size, wavs_shape)
    /\ ReshapeOk(PaddedShape(sz), BlockShape(sz))

PadToBlocks(wavs, sz) ==
    LET zeros  == Zeros(PaddedShape(sz))
        filled == SliceAssign(zeros, sz.wav_size, wavs)
    IN  Reshape(filled, BlockShape(sz))

\* does the segmentation prologue run through without an exception
SegmentOk(batch) ==
    /\ PadToBlocksOk(Append(batch.noisy_sig.shape, 1), Sizes(batch))
    /\ PadToBlocksOk(Append(batch.clean_sig.shape, 1), Sizes(batch))

\* fit_batch, lines 147-167: the two block tensors
SegmentFit(batch) ==
    [noisy_wavs |-> PadToBlocks(Unsqueeze(batch.noisy_sig), Sizes(batch)),
     clean_wavs |-> PadToBlocks(Unsqueeze(batch.clean_sig), Sizes(batch))]

\* evaluate_batch, lines 237-256: the two block tensors
SegmentEval(batch) ==
    [noisy_wavs |-> PadToBlocks(Unsqueeze(batch.noisy_sig), Sizes(batch)),
     clean_wavs |-> PadToBlocks(Unsqueeze(batch.clean_sig), Sizes(batch))]

\* compute_forward_d: inpt = torch.cat((noisy_wavs, clean_wavs), -1)
ForwardDInputOk(a_shape, b_shape) == CatOk(a_shape, b_shape)

ForwardDInputShape(a_shape, b_shape) == CatShape(a_shape, b_shape)

\* compute_objectives_g3: un-blocking the predicted wavs
\* predict_wavs.reshape(clean_wavs.shape[0], num_blocks * 16384)[:, : clean_wavs.shape[1]]
UnblockOk(predict_shape, orig_shape, num_blocks) ==
    ReshapeOk(predict_shape, <<orig_shape[1], num_blocks * BlockSize>>)

\* the reshape without the truncation
UnblockKeepPadding(predict_wavs, orig_shape, num_blocks) ==
    Reshape(predict_wavs, <<orig_shape[1], num_blocks * BlockSize>>)

Unblock(predict_wavs, orig_shape, num_blocks) ==
    SliceCols(Reshape(predict_wavs, <<orig_shape[1], num_blocks * BlockSize>>),
              orig_shape[2])

(***************************************************************************)
(* The segmenter under observation: the prologue of fit_batch or of        *)
(* evaluate_batch, the first discriminator forward, and the un-blocking    *)
(* of compute_objectives_g3, with the locals kept in frame.                *)
(***************************************************************************)
NoTensor == Tensor(<<0>>, <<>>)

NoFrame ==
    [phase |-> "none", who |-> "none", key |-> NoKey,
     batch_size |-> 0, wav_size |-> 0, num_blocks |-> 0,
     noisy_wavs |-> NoTensor, clean_wavs |-> NoTensor,
     inpt_shape |-> <<0>>, src |-> "none", unblocked |-> NoTensor,
     true_len |-> <<>>, saved |-> <<>>]

EnterFrame(who, key) ==
    LET batch == BatchOf(key)
        sz    == Sizes(batch)
        seg   == IF who = "fit" THEN SegmentFit(batch) ELSE SegmentEval(batch)
    IN  IF SegmentOk(batch)
        THEN [frame EXCEPT !.phase = "segmented", !.who = who, !.key = key,
                             !.batch_size = sz.batch_size,
                             !.wav_size = sz.wav_size,
                             !.num_blocks = sz.num_blocks,
                             !.noisy_wavs = seg.noisy_wavs,
                             !.clean_wavs = seg.clean_wavs]
        ELSE [frame EXCEPT !.phase = "error", !.who = who, !.key = key]

\* fit_batch lines 147-167 on a batch handed in by the driver
SegFit ==
    /\ frame.phase = "batch"
    /\ frame' = EnterFrame("fit", frame.key)
    /\ UNCHANGED trainVars

\* evaluate_batch lines 237-256
SegEval ==
    /\ frame.phase = "batch"
    /\ frame' = EnterFrame("eval", frame.key)
    /\ UNCHANGED trainVars

\* out_d1 = self.compute_forward_d(noisy_wavs, clean_wavs): the input handed
\* to the discriminator (its shape is kept)
SegForwardD ==
    /\ frame.phase = "segmented"
    /\ frame' = IF ForwardDInputOk(frame.noisy_wavs.shape, frame.clean_wavs.shape)
                THEN [frame EXCEPT !.phase = "forward",
                        !.inpt_shape = ForwardDInputShape(frame.noisy_wavs.shape,
                                                          frame.clean_wavs.shape)]
                ELSE [frame EXCEPT !.phase = "error"]
    /\ UNCHANGED trainVars

\* compute_objectives_g3 lines 96-100 on a generator output; the generator is
\* opaque, here it hands back one of the block tensors it could have been fed
SegUnblock ==
    /\ frame.phase = "forward"
    /\ \E src \in {"noisy", "clean"} :
         LET predict_wavs == IF src = "noisy" THEN frame.noisy_wavs
                                              ELSE frame.clean_wavs
             orig_shape   == <<frame.key.n, frame.key.len>>
         IN  frame' =
               IF UnblockOk(predict_wavs.shape, orig_shape, frame.num_blocks)
               THEN [frame EXCEPT !.phase = "unblocked",
                                  !.src = src,
                                  !.unblocked = Unblock(predict_wavs, orig_shape,
                                                        frame.num_blocks)]
               ELSE [frame EXCEPT !.phase = "error"]
    /\ UNCHANGED trainVars

(***************************************************************************)
(* Writing the enhanced audio at stage TEST (compute_objectives_g3 lines   *)
(* 110-123).  The valid-length fractions of a batch are float32 values: a  *)
(* positive float32 is [m, e], the number m * 2^-e with a 24-bit mantissa  *)
(* 2^23 <= m < 2^24, computed with round-to-nearest-even as the hardware   *)
(* does.  A normalised sample is the exact quotient num / den, or NaN.     *)
(***************************************************************************)
RECURSIVE Pow2(_)
Pow2(n) == IF n = 0 THEN 1 ELSE 2 * Pow2(n - 1)

RoundHalfEven(num, den) ==
    LET q == num \div den
        r == num % den
    IN  IF 2 * r < den THEN q
        ELSE IF 2 * r > den THEN q + 1
        ELSE IF q % 2 = 0 THEN q ELSE q + 1

\* the float32 nearest to (num / den) * 2^-e, for num > 0 and den > 0
RECURSIVE F32(_, _, _)
F32(num, den, e) ==
    IF num < den * Pow2(23) THEN F32(2 * num, den, e + 1)
    ELSE IF num >= den * Pow2(24) THEN F32(num, 2 * den, e - 1)
    ELSE LET m == RoundHalfEven(num, den)
         IN  IF m = Pow2(24) THEN [m |-> Pow2(23), e |-> e - 1]
             ELSE [m |-> m, e |-> e]

\* the valid-length fraction of an example of a samples in a batch padded to
\* b samples, as the batch provider hands it over (float32)
RelLen(a, b) == IF b = 0 THEN F32(1, 1, 0) ELSE F32(a, b, 0)

\* lens * clean_wavs.shape[1]: float32 times int, a float32
F32MulInt(x, n) == F32(x.m * n, 1, x.e)

\* int(length): truncation
F32Int(x) == IF x.e >= 0 THEN x.m \div Pow2(x.e) ELSE x.m * Pow2(0 - x.e)

Abs(x) == IF x < 0 THEN 0 - x ELSE x

\* torch.max(torch.abs(pred_wav)) of a non-empty row
RECURSIVE MaxAbs(_)
MaxAbs(row) ==
    IF Len(row) = 1 THEN Abs(row[1])
    ELSE LET rest == MaxAbs(Tail(row))
         IN  IF Abs(row[1]) > rest THEN Abs(row[1]) ELSE rest

\* x / peak * 0.99: 0 / 0 is NaN
Normalised(x, peak) ==
    IF peak = 0 THEN [k |-> "nan", num |-> 0, den |-> 1]
    ELSE [k |-> "fin", num |-> x * 99, den |-> peak * 100]

\* pred_wav = pred_wav / torch.max(torch.abs(pred_wav)) * 0.99
NormaliseRow(row) ==
    LET peak == MaxAbs(row)
    IN  [j \in 1 .. Len(row) |-> Normalised(row[j], peak)]

\* the file content of one example: pred_wav[: int(length)] of the
\* normalised row
SavedWav(row, length) ==
    LET n == F32Int(length)
    IN  SubSeq(NormaliseRow(row), 1, Min(n, Len(row)))

\* name += ".wav"
WavName(id) == <<id, ".wav">>

\* torch.max of an empty row is a RuntimeError
WriteWavsOk(predict_wavs) == predict_wavs.shape[1] = 0 \/ predict_wavs.shape[2] > 0

\* the loop over zip(batch.id, predict_wavs, lens): the files of the
\* enhanced folder it leaves, by name (a later write to a name replaces an
\* earlier one)
WriteWavs(ids, predict_wavs, lens) ==
    LET L    == predict_wavs.shape[2]
        n    == Min(Len(ids), predict_wavs.shape[1])
        full == [i \in 1 .. n |-> F32MulInt(lens[i], L)]
        last(nm) == CHOOSE i \in 1 .. n :
                       /\ WavName(ids[i]) = nm
                       /\ \A j \in 1 .. n : WavName(ids[j]) = nm => j <= i
    IN  [nm \in {WavName(ids[i]) : i \in 1 .. n} |->
            SavedWav(SubSeq(predict_wavs.data, (last(nm) - 1) * L + 1, last(nm) * L),
                     full[last(nm)])]

\* compute_objectives_g3 lines 110-123 at stage TEST, on the un-blocked
\* prediction of an evaluate_batch call
SegSave ==
    /\ frame.phase = "unblocked"
    /\ frame.who = "eval"
    /\ LET ids  == BatchMeta(frame.key.n, frame.key.len).id
           lens == [i \in 1 .. frame.key.n |->
                       RelLen(frame.true_len[i], frame.key.len)]
       IN  IF WriteWavsOk(frame.unblocked)
           THEN /\ frame' = [frame EXCEPT !.phase = "saved",
                               !.saved = WriteWavs(ids, frame.unblocked, lens)]
                /\ files' = files \cup {ids[i] : i \in DOMAIN ids}
           ELSE /\ frame' = [frame EXCEPT !.phase = "error"]
                /\ files' = files
    /\ UNCHANGED <<stage, metrics, params_d, params_g, grad_d, grad_g, call, nbatch,
                   endVars, driver, epoch, setupVars>>

(***************************************************************************)
(* Scalars: a float is finite (an integer here), NaN, +Inf or -Inf.        *)
(***************************************************************************)
Fin(n) == [k |-> "fin", v |-> n]

NaN == [k |-> "nan", v |-> 0]

PosInf == [k |-> "inf", v |-> 1]

NegInf == [k |-> "inf", v |-> -1]

\* torch.isfinite
IsFinite(x) == x.k = "fin"

\* IEEE addition
FAdd(x, y) ==
    IF x.k = "nan" \/ y.k = "nan" THEN NaN
    ELSE IF x.k = "inf" /\ y.k = "inf" THEN (IF x.v = y.v THEN x ELSE NaN)
    ELSE IF x.k = "inf" THEN x
    ELSE IF y.k = "inf" THEN y
    ELSE Fin(x.v + y.v)

\* what a cost function may hand back
LossVals == {Fin(1), NaN, PosInf, NegInf}

(***************************************************************************)
(* Autograd values of the training loop.  A value carries the parameter    *)
(* groups it depends on through the graph (deps: "d", "g"), the graph      *)
(* segments whose buffers a backward pass through it needs (graph), and    *)
(* the version of the parameters it was computed with.  The running state  *)
(* st of a call holds the parameters, their gradients, the accumulators,   *)
(* the files written, the graph segments already freed, the locals of the  *)
(* call (loc) and the trace of the operations performed.                   *)
(***************************************************************************)
NoVal == [name |-> "none", val |-> Fin(0), deps |-> {}, graph |-> {}]

NoOutD == [name |-> "none", rows |-> 0, ina |-> "none", inb |-> "none",
           pd |-> 0, deps |-> {}, graph |-> {}]

NoOutG == [name |-> "none", shape |-> <<0, 0, 0>>, pg |-> 0, deps |-> {}, graph |-> {}]

\* a block tensor as the networks see it: a leaf that requires no gradient
Blocks(name, shape) == [name |-> name, shape |-> shape, deps |-> {}, graph |-> {}]

NoLocals ==
    [noisy_wavs |-> Blocks("none", <<0, 0, 0>>),
     clean_wavs |-> Blocks("none", <<0, 0, 0>>),
     num_blocks |-> 0,
     out_d1 |-> NoOutD, out_g2 |-> NoOutG, out_d2 |-> NoOutD, out_d3 |-> NoOutD,
     loss_d1 |-> NoVal, loss_d2 |-> NoVal, loss_g3 |-> NoVal]

StartCall(pd, pg, gd, gg, m, f) ==
    [params_d |-> pd, params_g |-> pg, grad_d |-> gd, grad_g |-> gg,
     metrics |-> m, files |-> f, freed |-> {}, loc |-> NoLocals,
     trace |-> <<>>, err |-> FALSE]

Raise(st) == [st EXCEPT !.err = TRUE]

\* the trace entry of an operation; g is the gradient a step applies
LogG(st, op, arg, g) ==
    IF st.err THEN st
    ELSE [st EXCEPT !.trace = Append(@, [op |-> op, arg |-> arg, g |-> g])]

Log(st, op, arg) == LogG(st, op, arg, {})

\* the segmentation prologue as the loop sees it: the two block tensors
\* (their shapes) and num_blocks
Segmented(st, batch, who) ==
    LET sz == Sizes(batch)
    IN  IF SegmentOk(batch)
        THEN Log([st EXCEPT !.loc.noisy_wavs = Blocks("noisy_wavs", BlockShape(sz)),
                            !.loc.clean_wavs = Blocks("clean_wavs", BlockShape(sz)),
                            !.loc.num_blocks = sz.num_blocks],
                 "segment", who)
        ELSE Raise(st)

\* compute_forward_g: predict_wavs = self.modules["model_g"](noisy_wavs)
ForwardG(st, name, noisy_wavs, grad_enabled) ==
    [name  |-> name,
     shape |-> noisy_wavs.shape,
     pg    |-> st.params_g,
     deps  |-> IF grad_enabled THEN {"g"} \cup noisy_wavs.deps ELSE {},
     graph |-> IF grad_enabled THEN {name} \cup noisy_wavs.graph ELSE {}]

\* compute_forward_d: out = self.modules["model_d"](torch.cat((a, b), -1))
ForwardD(st, name, a, b, grad_enabled) ==
    [name  |-> name,
     rows  |-> ForwardDInputShape(a.shape, b.shape)[1],
     ina   |-> a.name,
     inb   |-> b.name,
     pd    |-> st.params_d,
     deps  |-> IF grad_enabled THEN {"d"} \cup a.deps \cup b.deps ELSE {},
     graph |-> IF grad_enabled THEN {name} \cup a.graph \cup b.graph ELSE {}]

\* out_g2 = self.compute_forward_g(noisy_wavs)
CallForwardG(st, name, noisy_wavs, grad_enabled) ==
    IF st.err THEN st
    ELSE Log([st EXCEPT !.loc[name] = ForwardG(st, name, noisy_wavs, grad_enabled)],
             "forward_g", name)

\* out_dK = self.compute_forward_d(a, b)
CallForwardD(st, name, a, b, grad_enabled) ==
    IF st.err THEN st
    ELSE IF ForwardDInputOk(a.shape, b.shape)
    THEN Log([st EXCEPT !.loc[name] = ForwardD(st, name, a, b, grad_enabled)],
             "forward_d", name)
    ELSE Raise(st)

\* the scalar a cost function returns on outputs outs: value l, hanging on
\* the graph of its arguments
Loss(name, l, outs) ==
    [name  |-> name,
     val   |-> l,
     deps  |-> UNION {o.deps : o \in outs},
     graph |-> UNION {o.graph : o \in outs}]

\* tensor.detach(): a new value off the graph; the receiver is left as it is
Detach(x) == [x EXCEPT !.deps = {}, !.graph = {}]

\* a + b on scalars
Add(x, y) ==
    [name  |-> "sum",
     val   |-> FAdd(x.val, y.val),
     deps  |-> x.deps \cup y.deps,
     graph |-> x.graph \cup y.graph]

\* MetricStats.append(ids, ...): extends the accumulator; an accumulator that
\* on_stage_start has not created is an AttributeError
MetricAppend(st, key, ids) ==
    IF st.err THEN st
    ELSE IF st.metrics[key].set
    THEN [st EXCEPT !.metrics[key].ids = @ \o ids]
    ELSE Raise(st)

\* compute_objectives_d1: loss = cost["d1"](d_outs);
\* self.loss_metric_d1.append(batch.id, d_outs, reduction="batch")
ComputeObjectivesD1(st, d_outs, batch, l) ==
    IF st.err THEN st
    ELSE Log(MetricAppend([st EXCEPT !.loc.loss_d1 = Loss("d1", l, {d_outs})],
                          "d1", batch.id),
             "loss", "d1")

\* compute_objectives_d2
ComputeObjectivesD2(st, d_outs, batch, l) ==
    IF st.err THEN st
    ELSE Log(MetricAppend([st EXCEPT !.loc.loss_d2 = Loss("d2", l, {d_outs})],
                          "d2", batch.id),
             "loss", "d2")

\* compute_objectives_g3 whose metric and file side effects ignore the stage
ComputeObjectivesG3AnyStage(st, d_outs, predict_wavs, batch, stg, num_blocks, l) ==
    LET s1 == IF st.err THEN st
              ELSE Log(MetricAppend(
                         [st EXCEPT !.loc.loss_g3 = Loss("g3", l, {d_outs, predict_wavs})],
                         "g3", batch.id),
                       "loss", "g3")
        s2 == IF s1.err THEN s1
              ELSE IF UnblockOk(predict_wavs.shape, batch.clean_sig.shape, num_blocks)
              THEN Log(s1, "unblock", "g3") ELSE Raise(s1)
        s3 == MetricAppend(MetricAppend(s2, "stoi", batch.id), "pesq", batch.id)
    IN  IF s3.err \/ batch.clean_sig.shape[2] = 0 THEN s3
        ELSE [s3 EXCEPT !.files = @ \cup {batch.id[i] : i \in DOMAIN batch.id}]

\* compute_objectives_g3: cost and accumulator, un-blocking, and for a stage
\* other than TRAIN the STOI / PESQ accumulators and (TEST) the audio files
ComputeObjectivesG3(st, d_outs, predict_wavs, batch, stg, num_blocks, l) ==
    LET s1 == IF st.err THEN st
              ELSE Log(MetricAppend(
                         [st EXCEPT !.loc.loss_g3 = Loss("g3", l, {d_outs, predict_wavs})],
                         "g3", batch.id),
                       "loss", "g3")
        s2 == IF s1.err THEN s1
              ELSE IF UnblockOk(predict_wavs.shape, batch.clean_sig.shape, num_blocks)
              THEN Log(s1, "unblock", "g3") ELSE Raise(s1)
        s3 == IF stg # "TRAIN"
              THEN MetricAppend(MetricAppend(s2, "stoi", batch.id), "pesq", batch.id)
              ELSE s2
        \* torch.max(torch.abs(pred_wav)) of an empty row is a RuntimeError
        s4 == IF stg = "TEST" /\ ~s3.err
              THEN IF batch.clean_sig.shape[2] = 0 THEN Raise(s3)
                   ELSE Log([s3 EXCEPT !.files = @ \cup
                                {batch.id[i] : i \in DOMAIN batch.id}],
                            "save", "wav")
              ELSE s3
    IN  s4

\* loss.backward(retain_graph): adds the loss's gradient to the .grad of
\* every parameter group it depends on; frees the graph unless retained.
\* A loss that requires no gradient, or whose graph was freed, is a RuntimeError
Backward(st, loss, retain_graph) ==
    IF st.err THEN st
    ELSE IF loss.deps = {} \/ loss.graph \cap st.freed # {} THEN Raise(st)
    ELSE Log([st EXCEPT
                !.grad_d = IF "d" \in loss.deps THEN @ \cup {loss.name} ELSE @,
                !.grad_g = IF "g" \in loss.deps THEN @ \cup {loss.name} ELSE @,
                !.freed  = IF retain_graph THEN @ ELSE @ \cup loss.graph],
             "backward", loss.name)

\* Brain.check_gradients(loss): is the loss finite
CheckGradients(loss) == IsFinite(loss.val)

\* the two optimizers bound to each other's network
OwnerSwapped(opt) == IF opt = "optimizer_d" THEN "g" ELSE "d"

\* init_optimizers: optimizer_d = opt_class(model_d.parameters()),
\*                  optimizer_g = opt_class(model_g.parameters())
Owner(opt) == IF opt = "optimizer_d" THEN "d" ELSE "g"

\* one update of a parameter group by its current gradient: a new version of
\* the parameters, unless there is no gradient to apply
Update(params, grad) == IF grad = {} THEN params ELSE params + 1

\* optimizer.step()
OptStep(st, opt) ==
    IF st.err THEN st
    ELSE LogG(IF Owner(opt) = "d"
              THEN [st EXCEPT !.params_d = Update(@, st.grad_d)]
              ELSE [st EXCEPT !.params_g = Update(@, st.grad_g)],
              "step", opt,
              IF Owner(opt) = "d" THEN st.grad_d ELSE st.grad_g)

\* optimizer.zero_grad(); the trace entry keeps the gradient it clears
ZeroGrad(st, opt) ==
    IF st.err THEN st
    ELSE LogG(IF Owner(opt) = "d"
              THEN [st EXCEPT !.grad_d = {}]
              ELSE [st EXCEPT !.grad_g = {}],
              "zero_grad", opt,
              IF Owner(opt) = "d" THEN st.grad_d ELSE st.grad_g)

\* the step without the health check
StepAlways(st, loss, opt) == OptStep(st, opt)

\* an unhealthy loss ends the call
StepOrAbort(st, loss, opt) ==
    IF CheckGradients(loss) THEN OptStep(st, opt) ELSE Raise(st)

\* if self.check_gradients(loss): optimizer.step()
StepIfHealthy(st, loss, opt) ==
    IF CheckGradients(loss) THEN OptStep(st, opt) ELSE st

\* return loss_d1 + loss_d2 + loss_g3, after the three statements
\* loss_dK.detach().cpu() whose results are dropped
ReturnValue(loss_d1, loss_d2, loss_g3) ==
    LET dropped == {Detach(loss_d1), Detach(loss_d2), Detach(loss_g3)}
    IN  Add(Add(loss_d1, loss_d2), loss_g3)

(***************************************************************************)
(* SEBrain.fit_batch on batch, the cost functions returning l1, l2, l3     *)
(***************************************************************************)
\* the first step with optimizer_d.step() ahead of loss_d1.backward()
TrainStep1StepFirst(st, batch, l1) ==
    LET s1 == CallForwardD(st, "out_d1", st.loc.noisy_wavs, st.loc.clean_wavs, TRUE)
        s2 == ComputeObjectivesD1(s1, s1.loc.out_d1, batch, l1)
        s3 == StepIfHealthy(s2, s2.loc.loss_d1, "optimizer_d")
        s4 == Backward(s3, s3.loc.loss_d1, FALSE)
    IN  ZeroGrad(s4, "optimizer_d")

\* the first step without its closing self.optimizer_d.zero_grad()
TrainStep1NoZero(st, batch, l1) ==
    LET s1 == CallForwardD(st, "out_d1", st.loc.noisy_wavs, st.loc.clean_wavs, TRUE)
        s2 == ComputeObjectivesD1(s1, s1.loc.out_d1, batch, l1)
        s3 == Backward(s2, s2.loc.loss_d1, FALSE)
    IN  StepIfHealthy(s3, s3.loc.loss_d1, "optimizer_d")

\* first of three step training process (lines 169-175)
TrainStep1(st, batch, l1) ==
    LET s1 == CallForwardD(st, "out_d1", st.loc.noisy_wavs, st.loc.clean_wavs, TRUE)
        s2 == ComputeObjectivesD1(s1, s1.loc.out_d1, batch, l1)
        s3 == Backward(s2, s2.loc.loss_d1, FALSE)
        s4 == StepIfHealthy(s3, s3.loc.loss_d1, "optimizer_d")
    IN  ZeroGrad(s4, "optimizer_d")

\* second training step (lines 177-189)
TrainStep2(st, batch, l2) ==
    LET s1 == CallForwardG(st, "out_g2", st.loc.noisy_wavs, TRUE)
        s2 == CallForwardD(s1, "out_d2", s1.loc.out_g2, s1.loc.clean_wavs, TRUE)
        s3 == ComputeObjectivesD2(s2, s2.loc.out_d2, batch, l2)
        s4 == Backward(s3, s3.loc.loss_d2, TRUE)
        s5 == StepIfHealthy(s4, s4.loc.loss_d2, "optimizer_d")
    IN  ZeroGrad(s5, "optimizer_d")

\* the third step scoring the generator with out_d2, as evaluate_batch does
TrainStep3ReuseD2(st, batch, l3) ==
    LET s1 == ZeroGrad(st, "optimizer_g")
        s2 == LogG([s1 EXCEPT !.loc.out_d3 = s1.loc.out_d2], "forward_d", "out_d3", {})
        s3 == ComputeObjectivesG3(s2, s2.loc.out_d3, s2.loc.out_g2, batch,
                                  "TRAIN", s2.loc.num_blocks, l3)
        s4 == Backward(s3, s3.loc.loss_g3, FALSE)
        s5 == StepIfHealthy(s4, s4.loc.loss_g3, "optimizer_g")
        s6 == ZeroGrad(s5, "optimizer_g")
    IN  ZeroGrad(s6, "optimizer_d")

\* the third step without its closing self.optimizer_d.zero_grad()
TrainStep3NoFinalZero(st, batch, l3) ==
    LET s1 == ZeroGrad(st, "optimizer_g")
        s2 == CallForwardD(s1, "out_d3", s1.loc.out_g2, s1.loc.clean_wavs, TRUE)
        s3 == ComputeObjectivesG3(s2, s2.loc.out_d3, s2.loc.out_g2, batch,
                                  "TRAIN", s2.loc.num_blocks, l3)
        s4 == Backward(s3, s3.loc.loss_g3, FALSE)
        s5 == StepIfHealthy(s4, s4.loc.loss_g3, "optimizer_g")
    IN  ZeroGrad(s5, "optimizer_g")

\* third (last) training step (lines 191-208)
TrainStep3(st, batch, l3) ==
    LET s1 == ZeroGrad(st, "optimizer_g")
        s2 == CallForwardD(s1, "out_d3", s1.loc.out_g2, s1.loc.clean_wavs, TRUE)
        s3 == ComputeObjectivesG3(s2, s2.loc.out_d3, s2.loc.out_g2, batch,
                                  "TRAIN", s2.loc.num_blocks, l3)
        s4 == Backward(s3, s3.loc.loss_g3, FALSE)
        s5 == StepIfHealthy(s4, s4.loc.loss_g3, "optimizer_g")
        s6 == ZeroGrad(s5, "optimizer_g")
    IN  ZeroGrad(s6, "optimizer_d")

FitBatchRun(st0, batch, l1, l2, l3) ==
    LET s0 == Segmented(st0, batch, "fit")
        s1 == TrainStep1(s0, batch, l1)
        s2 == TrainStep2(s1, batch, l2)
        s3 == TrainStep3(s2, batch, l3)
    IN  [st  |-> s3,
         ret |-> ReturnValue(s3.loc.loss_d1, s3.loc.loss_d2, s3.loc.loss_g3)]

(***************************************************************************)
(* SEBrain.evaluate_batch on batch at stage stg; grad_enabled is the       *)
(* autograd mode the caller runs it in                                     *)
(***************************************************************************)
\* evaluate_batch going through the training steps
EvaluateBatchRunAsFit(st0, batch, stg, grad_enabled, l1, l2, l3) ==
    FitBatchRun(st0, batch, l1, l2, l3)

EvaluateBatchRun(st0, batch, stg, grad_enabled, l1, l2, l3) ==
    LET s0 == Segmented(st0, batch, "eval")
        s1 == CallForwardD(s0, "out_d1", s0.loc.noisy_wavs, s0.loc.clean_wavs,
                           grad_enabled)
        s2 == ComputeObjectivesD1(s1, s1.loc.out_d1, batch, l1)
        s3 == CallForwardG(s2, "out_g2", s2.loc.noisy_wavs, grad_enabled)
        s4 == CallForwardD(s3, "out_d2", s3.loc.out_g2, s3.loc.clean_wavs,
                           grad_enabled)
        s5 == ComputeObjectivesD2(s4, s4.loc.out_d2, batch, l2)
        s6 == ComputeObjectivesG3(s5, s5.loc.out_d2, s5.loc.out_g2, batch,
                                  stg, s5.loc.num_blocks, l3)
    IN  [st  |-> s6,
         ret |-> ReturnValue(s6.loc.loss_d1, s6.loc.loss_d2, s6.loc.loss_g3)]

(***************************************************************************)
(* Stage end: on_stage_end, the statistics it assembles, what it logs and  *)
(* the checkpoint it saves.  A loss the driver hands over and an entry of  *)
(* an accumulator carry the stage and the epoch they come from.            *)
(***************************************************************************)
NoCheckpoints == [kept |-> {}, saved |-> <<>>]

\* an attribute of the Brain object: absent until first assigned
NoAttr == <<>>

Attr(v) == <<v>>

\* MetricStats.summarize("average") divides by the number of scores
SummarizeOk(acc) == acc.set /\ acc.ids # <<>>

\* MetricStats.summarize("average"): the average v of the scores of acc
Summarize(acc, v) == [val |-> v, of |-> acc.ids]

\* Checkpointer.save_and_keep_only(meta, max_keys=[key]) for mode "max",
\* min_keys=[key] for mode "min": saves a checkpoint with meta and keeps the
\* checkpoints that are best by key
SaveAndKeepOnly(ck, meta, mode, key) ==
    LET new == [n |-> Len(ck.saved) + 1, meta |-> meta]
        all == ck.kept \cup {new}
        Best(c) == \A o \in all :
                      IF mode = "max" THEN c.meta[key].val >= o.meta[key].val
                                      ELSE c.meta[key].val <= o.meta[key].val
    IN  [kept  |-> {c \in all : Best(c)},
         saved |-> Append(ck.saved, new)]

\* the checkpoint ranked by min_keys
SaveCheckpointMin(ck, stats) == SaveAndKeepOnly(ck, stats, "min", "pesq")

\* self.checkpointer.save_and_keep_only(meta=stats, max_keys=["pesq"])
SaveCheckpoint(ck, stats) == SaveAndKeepOnly(ck, stats, "max", "pesq")

\* self.train_loss recorded by the first TRAIN stage end only
TrainLossKeepFirst(stg, stage_loss, old) ==
    IF stg = "TRAIN" /\ old = NoAttr THEN Attr(stage_loss) ELSE old

\* if stage == sb.Stage.TRAIN: self.train_loss = stage_loss
TrainLossAfter(stg, stage_loss, old) ==
    IF stg = "TRAIN" THEN Attr(stage_loss) ELSE old

\* if stage == sb.Stage.TRAIN: self.train_stats = {...scores}
TrainStatsAfter(stg, m, old) ==
    IF stg = "TRAIN"
    THEN Attr([loss_d1 |-> m.d1.ids, loss_d2 |-> m.d2.ids, loss_g3 |-> m.g3.ids])
    ELSE old

\* stats = {"loss": stage_loss, "pesq": ..., "stoi": -...} (stage # TRAIN)
StageStats(stage_loss, m, q, t) ==
    [loss |-> stage_loss,
     pesq |-> Summarize(m.pesq, q),
     stoi |-> Summarize(m.stoi, 0 - t)]

\* the attributes on_stage_end reads exist
StageEndAttrsOk(stg, m, tl, ts, hp) ==
    /\ stg = "TRAIN" => (m.d1.set /\ m.d2.set /\ m.g3.set)
    /\ stg # "TRAIN" => (m.pesq.set /\ m.stoi.set)
    /\ stg = "VALID" =>
          /\ hp.use_tensorboard =>
                (m.d1.set /\ m.d2.set /\ m.g3.set /\ ts # NoAttr)
          /\ tl # NoAttr

\* the averages on_stage_end computes are defined
StageEndValuesOk(stg, m) ==
    stg # "TRAIN" => (SummarizeOk(m.pesq) /\ SummarizeOk(m.stoi))

\* what on_stage_end hands to the loggers
StageEndLogs(stg, ep, m, tl, ts, stats, hp) ==
    IF stg = "VALID"
    THEN (IF hp.use_tensorboard
          THEN << [logger |-> "tensorboard", stage |-> "VALID", epoch |-> ep,
                   train_stats |-> ts[1],
                   valid_stats |-> [loss_d1 |-> m.d1.ids, loss_d2 |-> m.d2.ids,
                                    loss_g3 |-> m.g3.ids, stoi |-> m.stoi.ids,
                                    pesq |-> m.pesq.ids]] >>
          ELSE <<>>)
         \o << [logger |-> "train_logger", stage |-> "VALID", epoch |-> ep,
                train_stats |-> [loss |-> tl[1]], valid_stats |-> stats] >>
    ELSE IF stg = "TEST"
    THEN << [logger |-> "train_logger", stage |-> "TEST", epoch_loaded |-> ep,
             test_stats |-> stats] >>
    ELSE <<>>

EndOf == [TRAIN |-> "TRAIN_END", VALID |-> "VALID_END", TEST |-> "TEST_END"]

\* on_stage_end(stage, stage_loss, epoch); q and t are the averages the PESQ
\* and STOI accumulators come to.  An exception ends the run.
OnStageEnd(stg, stage_loss, ep, q, t) ==
    LET tl    == TrainLossAfter(stg, stage_loss, train_loss)
        ts    == TrainStatsAfter(stg, metrics, train_stats)
        stats == StageStats(stage_loss, metrics, q, t)
    IN  IF ~StageEndAttrsOk(stg, metrics, tl, ts, hparams)
        THEN driver' = "AttributeError" /\ UNCHANGED endVars
        ELSE IF ~StageEndValuesOk(stg, metrics)
        THEN driver' = "ZeroDivisionError" /\ UNCHANGED endVars
        ELSE /\ train_loss' = tl
             /\ train_stats' = ts
             /\ logs' = logs \o StageEndLogs(stg, ep, metrics, tl, ts, stats, hparams)
             /\ ckpts' = IF stg = "VALID" THEN SaveCheckpoint(ckpts, stats) ELSE ckpts
             /\ driver' = EndOf[stg]

(***************************************************************************)
(* Set-up: dataio_prep and init_optimizers                                 *)
(***************************************************************************)
\* the datasets before dataio_prep has run; annotation is the content of the
\* train annotation file, items [id, length] in file order
NoDatasets == [annotation |-> <<>>, train |-> <<>>, status |-> "none"]

\* sorted(): x goes behind every item that may stay in front of it
RECURSIVE InsertSorted(_, _, _)
InsertSorted(s, x, reverse) ==
    IF s = <<>> THEN <<x>>
    ELSE IF (IF reverse THEN Head(s).length >= x.length
                        ELSE Head(s).length <= x.length)
         THEN <<Head(s)>> \o InsertSorted(Tail(s), x, reverse)
         ELSE <<x>> \o s

\* DynamicItemDataset.filtered_sorted(sort_key="length", reverse=reverse)
RECURSIVE FilteredSorted(_, _)
FilteredSorted(data, reverse) ==
    IF data = <<>> THEN <<>>
    ELSE InsertSorted(FilteredSorted(SubSeq(data, 1, Len(data) - 1), reverse),
                      data[Len(data)], reverse)

\* d[key] = value on a dict
DictSet(d, key, value) ==
    [k \in DOMAIN d \cup {key} |-> IF k = key THEN value ELSE d[k]]

\* the sort direction taken the wrong way round
SortingReverseAscending(sorting) == sorting = "ascending"

\* reverse=hparams["sorting"] == "descending"
SortingReverse(sorting) == sorting = "descending"

\* dataio_prep(hparams) on the annotation: the hparams it leaves and the
\* datasets it returns, or the exception it raises
DataioPrepRun(hp, annotation) ==
    IF hp.sorting = "ascending" \/ hp.sorting = "descending"
    THEN [hparams |-> [hp EXCEPT !.dataloader_options = DictSet(@, "shuffle", FALSE)],
          train   |-> FilteredSorted(annotation, SortingReverse(hp.sorting)),
          status  |-> "ready"]
    ELSE IF hp.sorting # "random"
    THEN [hparams |-> hp, train |-> <<>>, status |-> "NotImplementedError"]
    ELSE [hparams |-> hp, train |-> annotation, status |-> "ready"]

\* the state of the optimizers before init_optimizers: the constructor and
\* the checkpointer the Brain was given (either may be None)
NoOptimizers(opt_class, checkpointer) ==
    [opt_class |-> opt_class, checkpointer |-> checkpointer, called |-> FALSE,
     built |-> [a \in {} |-> 0], recoverables |-> [a \in {} |-> 0]]

\* opt_class(self.modules[...].parameters())
NewOptimizer(opt_class, network) == [cls |-> opt_class, params |-> network]

\* Checkpointer.add_recoverable(name, obj)
AddRecoverable(rec, name, obj) == DictSet(rec, name, obj)

\* init_optimizers registering both optimizers under one name
InitOptimizersRunOneName(o) ==
    IF o.opt_class # "None"
    THEN LET built == [a \in {"optimizer_d", "optimizer_g"} |->
                          NewOptimizer(o.opt_class, Owner(a))]
         IN  [o EXCEPT !.called = TRUE, !.built = built,
                       !.recoverables =
                          IF o.checkpointer
                          THEN AddRecoverable(
                                 AddRecoverable(@, "optimizer", built.optimizer_g),
                                 "optimizer", built.optimizer_d)
                          ELSE @]
    ELSE [o EXCEPT !.called = TRUE]

\* init_optimizers
InitOptimizersRun(o) ==
    IF o.opt_class # "None"
    THEN LET built == [a \in {"optimizer_d", "optimizer_g"} |->
                          NewOptimizer(o.opt_class, Owner(a))]
         IN  [o EXCEPT !.called = TRUE, !.built = built,
                       !.recoverables =
                          IF o.checkpointer
                          THEN AddRecoverable(
                                 AddRecoverable(@, "optimizer_g", built.optimizer_g),
                                 "optimizer_d", built.optimizer_d)
                          ELSE @]
    ELSE [o EXCEPT !.called = TRUE]

(***************************************************************************)
(* State machine                                                           *)
(***************************************************************************)
Unset == [set |-> FALSE, ids |-> <<>>]

Fresh == [set |-> TRUE, ids |-> <<>>]

NoCall ==
    [kind |-> "none", stage |-> "NONE", err |-> FALSE, trace |-> <<>>,
     losses |-> <<Fin(0), Fin(0), Fin(0)>>, ret |-> NoVal,
     pre_d |-> 0, pre_g |-> 0, pre_grad_d |-> {}, pre_grad_g |-> {},
     out_g2 |-> NoOutG, out_d2 |-> NoOutD, out_d3 |-> NoOutD,
     n |-> 0, len |-> 0, rows |-> 0]

\* the batches handed to fit_batch / evaluate_batch: zero length, less than
\* a block, more than a block
CallLengths == {0, 1, BlockSize + 1}

CallBatches == {BatchMeta(n, len) : n \in {1, MaxBatch}, len \in CallLengths}

TrainInit ==
    /\ stage = "NONE"
    /\ metrics = [d1 |-> Unset, d2 |-> Unset, g3 |-> Unset,
                  stoi |-> Unset, pesq |-> Unset]
    /\ params_d = 0
    /\ params_g = 0
    /\ grad_d = {}
    /\ grad_g = {}
    /\ files = {}
    /\ call = NoCall
    /\ nbatch = 0
    /\ train_loss = NoAttr
    /\ train_stats = NoAttr
    /\ logs = <<>>
    /\ ckpts = NoCheckpoints
    /\ driver = "start"
    /\ epoch = 0

\* the recipe's own settings: random sorting, shuffling left to the loader,
\* no tensorboard, an optimizer class and a checkpointer
DefaultSetup ==
    /\ hparams = [sorting |-> "random", dataloader_options |-> [batch_size |-> 1],
                  use_tensorboard |-> FALSE]
    /\ datasets = NoDatasets
    /\ optimizers = NoOptimizers("opt_class", TRUE)

Init == frame = NoFrame /\ TrainInit /\ DefaultSetup

\* on_stage_start that carries the STOI accumulator over
StageStartMetricsKeepStoi(stg, m) ==
    [d1   |-> Fresh,
     d2   |-> Fresh,
     g3   |-> Fresh,
     stoi |-> IF m.stoi.set THEN m.stoi ELSE Fresh,
     pesq |-> IF stg # "TRAIN" THEN Fresh ELSE m.pesq]

\* on_stage_start(stage): the accumulators it creates, m being the ones
\* that exist
StageStartMetrics(stg, m) ==
    [d1 |-> Fresh, d2 |-> Fresh, g3 |-> Fresh, stoi |-> Fresh,
     pesq |-> IF stg # "TRAIN" THEN Fresh ELSE m.pesq]

\* on_stage_start(stage)
OnStageStart(stg) ==
    /\ call.kind = "none"
    /\ stage' = stg
    /\ metrics' = StageStartMetrics(stg, metrics)
    /\ UNCHANGED <<frame, params_d, params_g, grad_d, grad_g, files, call, nbatch,
                   endVars, driver, epoch, setupVars>>

Finish(kind, stg, batch, l1, l2, l3, r) ==
    /\ params_d' = r.st.params_d
    /\ params_g' = r.st.params_g
    /\ grad_d' = r.st.grad_d
    /\ grad_g' = r.st.grad_g
    /\ metrics' = r.st.metrics
    /\ files' = r.st.files
    /\ call' = [kind |-> kind, stage |-> stg, err |-> r.st.err,
                trace |-> r.st.trace,
                losses |-> <<l1, l2, l3>>,
                ret |-> IF r.st.err THEN NoVal ELSE r.ret,
                pre_d |-> params_d, pre_g |-> params_g,
                pre_grad_d |-> grad_d, pre_grad_g |-> grad_g,
                out_g2 |-> r.st.loc.out_g2, out_d2 |-> r.st.loc.out_d2,
                out_d3 |-> r.st.loc.out_d3,
                n |-> batch.noisy_sig.shape[1], len |-> batch.noisy_sig.shape[2],
                rows |-> r.st.loc.noisy_wavs.shape[1]]
    /\ nbatch' = nbatch + 1

\* the driver calls fit_batch on the batches of a TRAIN stage
FitBatch ==
    /\ call.kind = "none"
    /\ stage = "TRAIN"
    /\ nbatch < MaxCalls
    /\ \E batch \in CallBatches : \E l1 \in LossVals, l2 \in LossVals, l3 \in LossVals :
         Finish("fit", "TRAIN", batch, l1, l2, l3,
                FitBatchRun(StartCall(params_d, params_g, grad_d, grad_g,
                                      metrics, files),
                            batch, l1, l2, l3))
    /\ UNCHANGED <<frame, stage, endVars, driver, epoch, setupVars>>

\* the driver calls evaluate_batch on the batches of a VALID or TEST stage
EvaluateBatch ==
    /\ call.kind = "none"
    /\ stage \in {"VALID", "TEST"}
    /\ nbatch < MaxCalls
    /\ \E batch \in CallBatches : \E grad_enabled \in BOOLEAN :
       \E l1 \in LossVals, l2 \in LossVals, l3 \in LossVals :
         Finish("eval", stage, batch, l1, l2, l3,
                EvaluateBatchRun(StartCall(params_d, params_g, grad_d, grad_g,
                                           metrics, files),
                                 batch, stage, grad_enabled, l1, l2, l3))
    /\ UNCHANGED <<frame, stage, endVars, driver, epoch, setupVars>>

\* the driver takes the loss a call returned and goes on; a call that raised
\* ends the run
TakeLoss ==
    /\ call.kind # "none"
    /\ ~call.err
    /\ call' = NoCall
    /\ UNCHANGED <<frame, stage, metrics, params_d, params_g, grad_d, grad_g,
                   files, nbatch, endVars, driver, epoch, setupVars>>

Next ==
    \/ \E stg \in {"TRAIN", "VALID", "TEST"} : OnStageStart(stg)
    \/ FitBatch
    \/ EvaluateBatch
    \/ TakeLoss

Spec == Init /\ [][Next]_vars

\* the segmenter alone, on every batch of Batches
InitSeg ==
    /\ frame \in {[NoFrame EXCEPT !.phase = "batch", !.key = k] : k \in BatchKeys}
    /\ TrainInit
    /\ DefaultSetup

NextSeg == SegFit \/ SegEval \/ SegForwardD \/ SegUnblock

SpecSeg == InitSeg /\ [][NextSeg]_vars

\* the TEST pass of evaluate_batch on short waveforms of unequal length: the
\* padded lengths, the true lengths of the examples (the longest fills the
\* batch), and the batches
SaveLengths == {0, 1, 22}

TrueLengths(len) == {1, 13, len}

\* the true lengths of a batch of n examples padded to len: none longer than
\* len, one of them len
TrueLengthsOf(n, len) ==
    {t \in [1 .. n -> {l \in TrueLengths(len) : l <= len}] :
        \E i \in 1 .. n : t[i] = len}

SaveFrames ==
    UNION {{[NoFrame EXCEPT !.phase = "batch",
                            !.key = [n |-> n, len |-> len, pat |-> pat],
                            !.true_len = t] : t \in TrueLengthsOf(n, len)} :
              n \in 1 .. MaxBatch, len \in SaveLengths, pat \in Patterns}

InitSave ==
    /\ frame \in SaveFrames
    /\ TrainInit
    /\ DefaultSetup

NextSave == SegEval \/ SegForwardD \/ SegUnblock \/ SegSave

SpecSave == InitSave /\ [][NextSave]_vars

\* the epochs of Brain.fit followed by Brain.evaluate: per epoch a TRAIN
\* stage and a VALID stage, each with its start, its batches and its end;
\* then at most one TEST stage
MaxEpochs == 2

MaxStageBatches == 2

PesqVals == {1, 2}

StoiVals == {-1}

\* the k-th batch of a stage of an epoch: one example of one sample, its id
\* telling where it comes from
StageBatch(stg, ep, k) ==
    [id        |-> << [stage |-> stg, epoch |-> ep, k |-> k] >>,
     noisy_sig |-> [shape |-> <<1, 1>>],
     clean_sig |-> [shape |-> <<1, 1>>]]

\* the average loss of a stage, as the driver hands it to on_stage_end
StageLoss(stg, ep) == [stage |-> stg, epoch |-> ep, val |-> Fin(1)]

InitEpochs ==
    /\ frame = NoFrame
    /\ TrainInit
    /\ hparams \in {[sorting |-> "random", dataloader_options |-> [batch_size |-> 1],
                     use_tensorboard |-> b] : b \in BOOLEAN}
    /\ datasets = NoDatasets
    /\ optimizers = NoOptimizers("opt_class", TRUE)

\* the driver opens a stage: TRAIN of the next epoch, VALID after TRAIN,
\* TEST once the epochs are over (or without any)
EpochStageStart(stg) ==
    /\ \/ stg = "TRAIN" /\ driver \in {"start", "VALID_END"} /\ epoch < MaxEpochs
       \/ stg = "VALID" /\ driver = "TRAIN_END"
       \/ stg = "TEST" /\ driver \in {"start", "VALID_END"}
    /\ epoch' = IF stg = "TRAIN" THEN epoch + 1 ELSE epoch
    /\ driver' = stg
    /\ stage' = stg
    /\ metrics' = StageStartMetrics(stg, metrics)
    /\ UNCHANGED <<frame, params_d, params_g, grad_d, grad_g, files, call, nbatch,
                   endVars, setupVars>>

\* the driver runs one more batch of the open stage
EpochBatch ==
    /\ driver \in {"TRAIN", "VALID", "TEST"}
    /\ Len(metrics.d1.ids) < MaxStageBatches
    /\ LET batch == StageBatch(driver, epoch, Len(metrics.d1.ids) + 1)
           st0   == StartCall(params_d, params_g, grad_d, grad_g, metrics, files)
       IN  IF driver = "TRAIN"
           THEN Finish("fit", "TRAIN", batch, Fin(1), Fin(1), Fin(1),
                       FitBatchRun(st0, batch, Fin(1), Fin(1), Fin(1)))
           ELSE Finish("eval", driver, batch, Fin(1), Fin(1), Fin(1),
                       EvaluateBatchRun(st0, batch, driver, FALSE,
                                        Fin(1), Fin(1), Fin(1)))
    /\ UNCHANGED <<frame, stage, endVars, driver, epoch, setupVars>>

\* the driver closes the open stage
EpochStageEnd ==
    /\ driver \in {"TRAIN", "VALID", "TEST"}
    /\ \E q \in PesqVals, t \in StoiVals :
          OnStageEnd(driver, StageLoss(driver, epoch), epoch, q, t)
    /\ UNCHANGED <<frame, stage, metrics, params_d, params_g, grad_d, grad_g,
                   files, call, nbatch, epoch, setupVars>>

NextEpochs ==
    \/ \E stg \in {"TRAIN", "VALID", "TEST"} : EpochStageStart(stg)
    \/ EpochBatch
    \/ EpochStageEnd

SpecEpochs == InitEpochs /\ [][NextEpochs]_vars

\* set-up as __main__ runs it: dataio_prep, then (fit) init_optimizers
MaxItems == 3

ItemLengths == {1, 2}

Sortings == {"random", "ascending", "descending", "shuffled", ""}

\* the annotation files of up to MaxItems items
Annotations ==
    UNION {{[i \in 1 .. n |-> [id |-> i, length |-> f[i]]] :
               f \in [1 .. n -> ItemLengths]} : n \in 0 .. MaxItems}

InitSetup ==
    /\ frame = NoFrame
    /\ TrainInit
    /\ hparams \in {[sorting |-> srt, dataloader_options |-> opts,
                     use_tensorboard |-> FALSE] :
                       srt \in Sortings,
                       opts \in {[batch_size |-> 1],
                                 [batch_size |-> 1, shuffle |-> TRUE],
                                 [batch_size |-> 1, shuffle |-> FALSE]}}
    /\ datasets \in {[NoDatasets EXCEPT !.annotation = a] : a \in Annotations}
    /\ optimizers \in {NoOptimizers(c, k) : c \in {"None", "opt_class"},
                                            k \in BOOLEAN}

\* datasets = dataio_prep(hparams)
DataioPrep ==
    /\ datasets.status = "none"
    /\ LET r == DataioPrepRun(hparams, datasets.annotation)
       IN  /\ hparams' = r.hparams
           /\ datasets' = [datasets EXCEPT !.train = r.train, !.status = r.status]
    /\ UNCHANGED <<frame, stage, metrics, params_d, params_g, grad_d, grad_g,
                   files, call, nbatch, endVars, driver, epoch, optimizers>>

\* se_brain.fit(...) calls init_optimizers before the first epoch
InitOptimizers ==
    /\ datasets.status = "ready"
    /\ ~optimizers.called
    /\ optimizers' = InitOptimizersRun(optimizers)
    /\ UNCHANGED <<frame, stage, metrics, params_d, params_g, grad_d, grad_g,
                   files, call, nbatch, endVars, driver, epoch, hparams, datasets>>

NextSetup == DataioPrep \/ InitOptimizers

SpecSetup == InitSetup /\ [][NextSetup]_vars

(***************************************************************************)
(* Properties of fit_batch (Spec).  call holds the last completed call:    *)
(* its sub-loss values, the parameters before it, its trace, its return.   *)
(***************************************************************************)
FitDone == call.kind = "fit" /\ ~call.err

LossName == <<"d1", "d2", "g3">>

OptimizerOf(k) == IF k \in {"d1", "d2"} THEN "optimizer_d" ELSE "optimizer_g"

\* positions of the trace holding operation op on arg
At(op, arg) == {i \in DOMAIN call.trace :
                   call.trace[i].op = op /\ call.trace[i].arg = arg}

\* positions of the steps that apply a gradient of sub-loss k
StepsApplying(k) == {i \in DOMAIN call.trace :
                        call.trace[i].op = "step" /\ k \in call.trace[i].g}

OpArg(tr) == [i \in DOMAIN tr |-> <<tr[i].op, tr[i].arg>>]

NotStep(e) == e[1] # "step"

\* the statements of fit_batch other than the optimizer steps, in code order
FitSkeleton ==
    << <<"segment", "fit">>,
       <<"forward_d", "out_d1">>, <<"loss", "d1">>, <<"backward", "d1">>,
       <<"zero_grad", "optimizer_d">>,
       <<"forward_g", "out_g2">>, <<"forward_d", "out_d2">>, <<"loss", "d2">>,
       <<"backward", "d2">>, <<"zero_grad", "optimizer_d">>,
       <<"zero_grad", "optimizer_g">>, <<"forward_d", "out_d3">>,
       <<"loss", "g3">>, <<"unblock", "g3">>, <<"backward", "g3">>,
       <<"zero_grad", "optimizer_g">>, <<"zero_grad", "optimizer_d">> >>

\* C1 as stated: whenever a sub-loss of a fit_batch call is not finite, the
\* parameters owned by that sub-loss's optimizer are the same after the call
\* as before it, and that optimizer's gradients are zero after the call.
C1_Stated ==
    FitDone =>
      /\ (~IsFinite(call.losses[1]) \/ ~IsFinite(call.losses[2]))
            => (params_d = call.pre_d /\ grad_d = {})
      /\ ~IsFinite(call.losses[3]) => (params_g = call.pre_g /\ grad_g = {})

\* C1 amended: a non-finite sub-loss never has its gradient applied by a
\* step, and its optimizer's gradients are zero after the call.  The
\* generator's parameters are unchanged when g3 is not finite; the
\* discriminator's parameters are unchanged when both d1 and d2 are not
\* finite, and when only one of them is not finite they are updated once,
\* by the gradient of the other alone.
C1_SkippedStepLeavesParams ==
    FitDone =>
      /\ \A k \in 1 .. 3 : ~IsFinite(call.losses[k]) =>
            /\ StepsApplying(LossName[k]) = {}
            /\ (IF k = 3 THEN grad_g ELSE grad_d) = {}
      /\ ~IsFinite(call.losses[3]) => params_g = call.pre_g
      /\ (~IsFinite(call.losses[1]) /\ ~IsFinite(call.losses[2]))
            => params_d = call.pre_d
      /\ \A k \in 1 .. 2 :
            (~IsFinite(call.losses[k]) /\ IsFinite(call.losses[3 - k])) =>
               /\ params_d = call.pre_d + 1
               /\ \A i \in At("step", "optimizer_d") :
                     call.trace[i].g = {LossName[3 - k]}

\* a call with d1 NaN and d2 finite: the discriminator has moved
C1_Witness ==
    /\ FitDone
    /\ call.losses[1] = NaN /\ IsFinite(call.losses[2]) /\ call.losses[3] = NaN
    /\ params_d = call.pre_d + 1
    /\ params_g = call.pre_g

\* C2: in fit_batch, for every combination of finite and non-finite
\* sub-losses, the optimizer step of sub-loss k is applied exactly when its
\* loss is finite; the zero_grad of its optimizer follows in either case;
\* the call never aborts and every later statement runs; the value returned
\* is the sum of the three sub-losses, non-finite as soon as one of them is.
C2_UnhealthyLossSkipsOnlyItsStep ==
    call.kind = "fit" =>
      /\ ~call.err
      /\ \A k \in 1 .. 3 :
           \E b \in At("backward", LossName[k]) :
              LET opt == OptimizerOf(LossName[k])
                  z   == IF IsFinite(call.losses[k]) THEN b + 2 ELSE b + 1
              IN  /\ z \in At("zero_grad", opt)
                  /\ (b + 1 \in At("step", opt)) <=> IsFinite(call.losses[k])
      /\ Cardinality(At("step", "optimizer_d") \cup At("step", "optimizer_g"))
            = Cardinality({k \in 1 .. 3 : IsFinite(call.losses[k])})
      /\ Len(call.trace) = Len(FitSkeleton)
                           + Cardinality({k \in 1 .. 3 : IsFinite(call.losses[k])})
      /\ call.trace[Len(call.trace)].op = "zero_grad"
      /\ call.ret.val = FAdd(FAdd(call.losses[1], call.losses[2]), call.losses[3])
      /\ (\E k \in 1 .. 3 : ~IsFinite(call.losses[k])) => ~IsFinite(call.ret.val)

\* d1 NaN, d2 finite, g3 +Inf: only the second step was taken
C2_Witness ==
    /\ call.kind = "fit"
    /\ call.losses = <<NaN, Fin(1), PosInf>>
    /\ Cardinality(At("step", "optimizer_d")) = 1
    /\ At("step", "optimizer_g") = {}
    /\ At("backward", "g3") # {}
    /\ call.ret.val = NaN

\* C3: the statements of a fit_batch call run in the fixed order of the
\* code (D forward, d1, backward, step, zero_grad; G forward, D forward, d2,
\* backward, step, zero_grad; zero_grad, D forward, g3, backward, step,
\* zero_grad, zero_grad), whatever the loss values.  Every optimizer step
\* comes directly after the backward pass of its own sub-loss and applies
\* its gradient; the discriminator steps at most twice and the generator at
\* most once; no generator step comes before both discriminator step
\* opportunities have closed.
C3_FixedUpdateOrder ==
    FitDone =>
      LET tr == call.trace
      IN  /\ SelectSeq(OpArg(tr), NotStep) = FitSkeleton
          /\ \A i \in DOMAIN tr : tr[i].op = "step" =>
                /\ i > 1
                /\ tr[i - 1].op = "backward"
                /\ tr[i].arg = OptimizerOf(tr[i - 1].arg)
                /\ tr[i - 1].arg \in tr[i].g
          /\ Cardinality(At("step", "optimizer_d")) <= 2
          /\ Cardinality(At("step", "optimizer_g")) <= 1
          /\ \A i \in At("step", "optimizer_g") :
                /\ \A j \in At("step", "optimizer_d") : j < i
                /\ \E b1 \in At("backward", "d1"), b2 \in At("backward", "d2") :
                      \E z \in At("zero_grad", "optimizer_d") :
                         b1 < b2 /\ b2 < z /\ z < i

\* a call with three finite losses: three steps, twenty statements
C3_Witness ==
    /\ FitDone
    /\ \A k \in 1 .. 3 : IsFinite(call.losses[k])
    /\ Cardinality(At("step", "optimizer_d")) = 2
    /\ Cardinality(At("step", "optimizer_g")) = 1
    /\ Len(call.trace) = 20

\* C4: the discriminator output that scores the generator in the third step
\* (out_d3) is a forward pass of its own, run after the second discriminator
\* step opportunity, with the discriminator weights as those updates left
\* them, on the same generator output out_g2 that the second step scored
\* (the generator runs once per batch).
C4_FreshDiscriminatorPass ==
    FitDone =>
      LET tr == call.trace
      IN  /\ call.out_d3.name = "out_d3"
          /\ call.out_d3.ina = "out_g2" /\ call.out_d2.ina = "out_g2"
          /\ call.out_d3.inb = "clean_wavs"
          /\ Cardinality(At("forward_g", "out_g2")) = 1
          /\ call.out_g2.pg = call.pre_g
          /\ \E f \in At("forward_d", "out_d3") :
                /\ \A j \in At("step", "optimizer_d") : j < f
                /\ \A b \in At("backward", "d2") : b < f
                /\ \A g \in At("forward_g", "out_g2") : g < f
          /\ call.out_d3.pd = call.pre_d + Cardinality(At("step", "optimizer_d"))
          /\ call.out_d3.pd = params_d
          /\ call.out_d2.pd = call.pre_d + Cardinality(StepsApplying("d1"))

\* the second step has moved the discriminator between out_d2 and out_d3
C4_Witness ==
    /\ FitDone
    /\ IsFinite(call.losses[2])
    /\ call.out_d3.pd = call.out_d2.pd + 1
    /\ call.out_d3.ina = call.out_d2.ina

\* C5 as stated: the value fit_batch / evaluate_batch returns is built from
\* detached copies of the three sub-losses: it depends on no parameter and
\* holds no graph.
C5_ReturnIsDetached ==
    (call.kind \in {"fit", "eval"} /\ ~call.err) =>
       /\ call.ret.deps = {}
       /\ call.ret.graph = {}

\* C6: after every fit_batch call, whatever the loss values, the gradients
\* of both networks are zero; so over any sequence of fit_batch and
\* evaluate_batch calls every batch starts with all gradients zero.
C6_GradientsZeroBetweenBatches ==
    /\ FitDone => (grad_d = {} /\ grad_g = {})
    /\ call.kind \in {"none", "eval"} => (grad_d = {} /\ grad_g = {})

\* the second batch of a stage, after a first one that updated both networks,
\* with d2 and g3 not finite
C6_Witness ==
    /\ FitDone
    /\ nbatch = 2
    /\ call.pre_d > 0 /\ call.pre_g > 0
    /\ call.losses = <<Fin(1), NaN, NegInf>>
    /\ grad_d = {} /\ grad_g = {}

(***************************************************************************)
(* Properties of the segmenter (SpecSeg)                                   *)
(***************************************************************************)
\* sample p (0-based) of example i after padding to a multiple of the block
PaddedSample(sign, key, i, p) ==
    IF p < key.len THEN sign * Sample(key.pat, i, p) ELSE 0

\* C7: for N >= 1 and L >= 1, un-blocking the blocks of a segmented batch
\* with the same N and M gives back the original (N, L) waveforms, sample
\* for sample.
C7_RoundTrip ==
    (frame.phase = "unblocked" /\ frame.key.n >= 1 /\ frame.key.len >= 1) =>
       frame.unblocked =
          (IF frame.src = "noisy" THEN BatchOf(frame.key).noisy_sig
                                  ELSE BatchOf(frame.key).clean_sig)

\* two examples of a block and one sample, every sample its own value
C7_Witness ==
    /\ frame.phase = "unblocked"
    /\ frame.key = [n |-> MaxBatch, len |-> BlockSize + 1, pat |-> "ramp"]
    /\ frame.src = "noisy"
    /\ frame.num_blocks = 2
    /\ frame.unblocked.shape = <<MaxBatch, BlockSize + 1>>

\* what C8 says of one block tensor cut from the waveforms orig
BlocksPadded(wavs, orig, key, M) ==
    /\ wavs.shape = <<key.n * M, BlockSize, 1>>
    /\ Len(wavs.data) = key.n * M * BlockSize
    /\ \A i \in 0 .. key.n - 1 :
          /\ SubSeq(wavs.data, i * M * BlockSize + 1, i * M * BlockSize + key.len)
                = SubSeq(orig.data, i * key.len + 1, (i + 1) * key.len)
          /\ SubSeq(wavs.data, i * M * BlockSize + key.len + 1,
                    (i + 1) * M * BlockSize)
                = [j \in 1 .. (M * BlockSize - key.len) |-> 0]

\* C8: in fit_batch and in evaluate_batch alike, a batch of N waveforms of
\* length L >= 1 becomes N * M blocks of 16384 samples with M the least
\* integer with M * 16384 >= L; the samples keep their places and only the
\* trailing positions L .. M * 16384 - 1 of each example are filled, with
\* zeros.  L = 16384 gives M = 1, L = 16385 gives M = 2.
C8_BlocksAndPadding ==
    (frame.phase = "segmented" /\ frame.key.len >= 1) =>
       LET M == frame.num_blocks
       IN  /\ frame.who \in {"fit", "eval"}
           /\ M * BlockSize >= frame.key.len
           /\ (M - 1) * BlockSize < frame.key.len
           /\ frame.key.len = 16384 => M = 1
           /\ frame.key.len = 16385 => M = 2
           /\ BlocksPadded(frame.noisy_wavs, BatchOf(frame.key).noisy_sig,
                           frame.key, M)
           /\ BlocksPadded(frame.clean_wavs, BatchOf(frame.key).clean_sig,
                           frame.key, M)

\* evaluate_batch on waveforms of 16385 samples: two blocks each
C8_Witness ==
    /\ frame.phase = "segmented"
    /\ frame.who = "eval"
    /\ frame.key.n = MaxBatch
    /\ frame.key.len = 16385
    /\ frame.num_blocks = 2
    /\ frame.noisy_wavs.shape = <<2 * MaxBatch, BlockSize, 1>>

\* what C9 says of one block tensor
BlocksInOrder(wavs, sign, key, M) ==
    \A r \in 0 .. key.n * M - 1 :
       SubSeq(wavs.data, r * BlockSize + 1, (r + 1) * BlockSize)
          = [j \in 1 .. BlockSize |->
                PaddedSample(sign, key, r \div M, (r % M) * BlockSize + j - 1)]

\* C9: the blocks of example i are the M consecutive blocks i * M ..
\* i * M + M - 1, in waveform order: block i * M + k holds the samples
\* k * 16384 .. (k + 1) * 16384 - 1 of example i's padded waveform, and no
\* block holds samples of two examples.
C9_BlockMajorOrder ==
    (frame.phase = "segmented" /\ frame.key.len >= 1) =>
       /\ BlocksInOrder(frame.noisy_wavs, -1, frame.key, frame.num_blocks)
       /\ BlocksInOrder(frame.clean_wavs, 1, frame.key, frame.num_blocks)

\* two examples of two blocks each, every sample its own value
C9_Witness ==
    /\ frame.phase = "segmented"
    /\ frame.who = "fit"
    /\ frame.key = [n |-> MaxBatch, len |-> BlockSize + 1, pat |-> "ramp"]
    /\ frame.num_blocks = 2
    /\ frame.clean_wavs.data[BlockSize + 1] = Sample("ramp", 0, BlockSize)
    /\ frame.clean_wavs.data[2 * BlockSize + 1] = Sample("ramp", 1, 0)

\* C10 as stated: a batch whose waveforms have length 0 fails in the
\* segmentation, before any forward pass.
C10_ZeroLengthFailsFast ==
    frame.key.len = 0 => frame.phase \notin {"forward", "unblocked"}

(***************************************************************************)
(* Properties of evaluate_batch and of the gradient flow (Spec)            *)
(***************************************************************************)
\* C11: evaluate_batch runs no backward pass, no optimizer step and no
\* zero_grad: at every stage and for every batch the parameters of both
\* networks and their gradients are after the call what they were before
\* it (also when the call raises), while a call that returns has computed
\* d1, d2 and g3, in this order, and returns their sum.
C11_EvaluateLeavesTrainingState ==
    call.kind = "eval" =>
       /\ params_d = call.pre_d /\ params_g = call.pre_g
       /\ grad_d = call.pre_grad_d /\ grad_g = call.pre_grad_g
       /\ \A i \in DOMAIN call.trace :
             call.trace[i].op \notin {"backward", "step", "zero_grad"}
       /\ ~call.err =>
             /\ \E i1 \in At("loss", "d1"), i2 \in At("loss", "d2"),
                   i3 \in At("loss", "g3") : i1 < i2 /\ i2 < i3
             /\ call.ret.val = FAdd(FAdd(call.losses[1], call.losses[2]),
                                    call.losses[3])

\* a VALID batch with three finite losses, after a training batch that
\* updated both networks
C11_Witness ==
    /\ call.kind = "eval" /\ ~call.err
    /\ call.stage = "VALID"
    /\ call.pre_d = 2 /\ call.pre_g = 1
    /\ params_d = 2 /\ params_g = 1
    /\ call.ret.val = Fin(3)

\* the gradient cleared by the n-th zero_grad of optimizer opt in the call
NthZeroGrad(opt, n) ==
    LET zs == At("zero_grad", opt)
        i  == CHOOSE z \in zs : Cardinality({y \in zs : y < z}) = n - 1
    IN  call.trace[i]

\* C18: every optimizer step of fit_batch applies the gradient of one
\* sub-loss only, the one just backpropagated, whichever earlier steps were
\* skipped.  What loss_d1.backward leaves on the discriminator is cleared
\* before loss_d2.backward; what loss_d2.backward leaves on the generator is
\* cleared before loss_g3.backward; what loss_g3.backward leaves on the
\* discriminator is cleared by the last zero_grad and never applied.
C18_StepAppliesOneSubLoss ==
    FitDone =>
      LET tr == call.trace
      IN  /\ \A i \in DOMAIN tr : tr[i].op = "step" =>
                /\ i > 1 /\ tr[i - 1].op = "backward"
                /\ tr[i].g = {tr[i - 1].arg}
          /\ Cardinality(At("zero_grad", "optimizer_d")) = 3
          /\ Cardinality(At("zero_grad", "optimizer_g")) = 2
          /\ NthZeroGrad("optimizer_d", 1).g = {"d1"}
          /\ NthZeroGrad("optimizer_d", 2).g = {"d2"}
          /\ NthZeroGrad("optimizer_g", 1).g = {"d2"}
          /\ NthZeroGrad("optimizer_g", 2).g = {"g3"}
          /\ NthZeroGrad("optimizer_d", 3).g = {"g3"}
          /\ \A z \in At("zero_grad", "optimizer_g") :
                \A b2 \in At("backward", "d2"), b3 \in At("backward", "g3") :
                   tr[z].g = {"d2"} => (b2 < z /\ z < b3)
          /\ \A i \in At("step", "optimizer_d") : "g3" \notin tr[i].g
          /\ \A i \in At("step", "optimizer_g") : tr[i].g = {"g3"}

\* the first step skipped (d1 NaN), the two others taken
C18_Witness ==
    /\ FitDone
    /\ call.losses = <<NaN, Fin(1), Fin(1)>>
    /\ At("step", "optimizer_d") # {}
    /\ At("step", "optimizer_g") # {}
    /\ NthZeroGrad("optimizer_g", 1).g = {"d2"}
    /\ NthZeroGrad("optimizer_d", 3).g = {"g3"}

\* C19: in fit_batch the discriminator steps leave the generator parameters
\* as they are and the generator step leaves the discriminator parameters
\* as they are: each network is updated by the steps of its own optimizer
\* only, although loss_d2.backward and loss_g3.backward leave gradients on
\* both networks.
C19_StepsUpdateOwnNetworkOnly ==
    FitDone =>
       /\ params_g = call.pre_g + Cardinality(At("step", "optimizer_g"))
       /\ params_d = call.pre_d + Cardinality(At("step", "optimizer_d"))
       /\ call.out_g2.pg = call.pre_g
       /\ call.out_d3.pd = params_d
       /\ At("step", "optimizer_g") = {} => params_g = call.pre_g
       /\ At("step", "optimizer_d") = {} => params_d = call.pre_d

\* both discriminator steps taken, the generator step skipped: the
\* generator has not moved although d2 left a gradient on it
C19_Witness ==
    /\ FitDone
    /\ call.losses = <<Fin(1), Fin(1), PosInf>>
    /\ params_d = call.pre_d + 2
    /\ params_g = call.pre_g
    /\ NthZeroGrad("optimizer_g", 1).g = {"d2"}
    /\ NthZeroGrad("optimizer_d", 3).g = {"g3"}

(***************************************************************************)
(* Properties of the audio written at stage TEST (SpecSave)                *)
(***************************************************************************)
\* |num / den| <= 0.99 for a sample that is a number
PeakOk(x) == x.k = "fin" /\ Abs(x.num) * 100 <= 99 * x.den

\* C15 as stated: evaluate_batch at stage TEST on N examples with distinct
\* ids leaves exactly N files, the file of id x named x.wav, each holding as
\* many samples as the example's true length, with peak absolute amplitude
\* at most 0.99.
C15_OneFilePerExample ==
    frame.phase = "saved" =>
       /\ DOMAIN frame.saved = {WavName(i) : i \in 1 .. frame.key.n}
       /\ Cardinality(DOMAIN frame.saved) = frame.key.n
       /\ \A i \in 1 .. frame.key.n :
             /\ Len(frame.saved[WavName(i)]) = frame.true_len[i]
             /\ \A j \in DOMAIN frame.saved[WavName(i)] :
                   PeakOk(frame.saved[WavName(i)][j])

\* every entry of ids was appended by a batch of stage stg of epoch ep
FromStage(ids, stg, ep) ==
    \A i \in 1 .. Len(ids) : ids[i].stage = stg /\ ids[i].epoch = ep

\* the statistics a stage end logged come from batches of stg of epoch ep
StatsFromStage(rec, stg, ep) ==
    IF rec.logger = "tensorboard"
    THEN \A k \in {"loss_d1", "loss_d2", "loss_g3", "stoi", "pesq"} :
            FromStage(rec.valid_stats[k], stg, ep)
    ELSE LET stats == IF rec.stage = "VALID" THEN rec.valid_stats ELSE rec.test_stats
         IN  FromStage(stats.pesq.of, stg, ep) /\ FromStage(stats.stoi.of, stg, ep)

\* C12: from every stage start on, the d1, d2, g3 and STOI accumulators hold
\* only entries of the stage that was started, and so does the PESQ
\* accumulator of a VALID or TEST stage, while during a TRAIN stage the PESQ
\* accumulator is still the one the previous stage left (absent in epoch 1,
\* else the one the previous VALID end summarised); the statistics logged at
\* a VALID or TEST stage end contain only entries of that same stage
C12_StageStartResetsAccumulators ==
    /\ driver # "start" =>
          /\ \A k \in {"d1", "d2", "g3", "stoi"} :
                metrics[k].set /\ FromStage(metrics[k].ids, stage, epoch)
          /\ stage # "TRAIN" =>
                metrics.pesq.set /\ FromStage(metrics.pesq.ids, stage, epoch)
          /\ stage = "TRAIN" =>
                IF epoch = 1
                THEN metrics.pesq = Unset
                ELSE /\ logs # <<>>
                     /\ logs[Len(logs)].stage = "VALID"
                     /\ logs[Len(logs)].epoch = epoch - 1
                     /\ metrics.pesq.ids = logs[Len(logs)].valid_stats.pesq.of
    /\ \A i \in 1 .. Len(logs) :
          StatsFromStage(logs[i], logs[i].stage,
                         IF logs[i].stage = "VALID" THEN logs[i].epoch
                                                    ELSE logs[i].epoch_loaded)

\* the second VALID stage ends after a batch, the first one having had one
\* as well, and the statistics are logged to both loggers
C12_Witness ==
    /\ driver = "VALID_END" /\ epoch = 2 /\ hparams.use_tensorboard
    /\ Len(logs) = 4
    /\ Len(logs[2].valid_stats.pesq.of) = MaxStageBatches
    /\ Len(logs[4].valid_stats.pesq.of) = MaxStageBatches
    /\ Len(logs[3].valid_stats.stoi) = MaxStageBatches

\* C13: after every VALID stage end the retained checkpoints are among the
\* saved ones, there is one, and each has the largest pesq of all the
\* checkpoints saved by the validation epochs so far (keep-best: the last
\* saved one is dropped when an earlier one is better)
C13_KeepBestByPesq ==
    /\ \A c \in ckpts.kept :
          /\ \E i \in 1 .. Len(ckpts.saved) : ckpts.saved[i] = c
          /\ \A i \in 1 .. Len(ckpts.saved) :
                c.meta.pesq.val >= ckpts.saved[i].meta.pesq.val
    /\ ckpts.saved # <<>> => ckpts.kept # {}

\* the second validation epoch scored worse than the first: the checkpoint
\* of the first epoch is the one retained, the last one is gone
C13_Witness ==
    /\ driver = "VALID_END" /\ Len(ckpts.saved) = 2
    /\ ckpts.saved[1].meta.pesq.val = 2
    /\ ckpts.saved[2].meta.pesq.val = 1
    /\ ckpts.kept = {ckpts.saved[1]}

\* C14: the STOI and PESQ accumulators only ever hold entries of VALID or
\* TEST batches and a fit_batch call leaves both as they were; enhanced
\* files exist only as written by TEST batches, a TRAIN or VALID batch
\* writing none; a checkpoint is saved by every VALID stage end that
\* completes, exactly one, and by no other step
C14_StageGatedSideEffects ==
    /\ [](/\ \A k \in {"stoi", "pesq"} : \A i \in 1 .. Len(metrics[k].ids) :
                metrics[k].ids[i].stage \in {"VALID", "TEST"}
          /\ \A f \in files : f.stage = "TEST"
          /\ \A i \in 1 .. Len(ckpts.saved) :
                /\ ckpts.saved[i].meta.loss.stage = "VALID"
                /\ ckpts.saved[i].meta.loss.epoch = i)
    /\ [][/\ (nbatch' # nbatch /\ call'.kind = "fit") =>
                /\ stage = "TRAIN"
                /\ metrics'.stoi = metrics.stoi
                /\ metrics'.pesq = metrics.pesq
          /\ (nbatch' # nbatch /\ call'.kind = "eval") =>
                /\ stage \in {"VALID", "TEST"}
                /\ Len(metrics'.stoi.ids) = Len(metrics.stoi.ids) + 1
                /\ Len(metrics'.pesq.ids) = Len(metrics.pesq.ids) + 1
          /\ files' # files => (nbatch' # nbatch /\ stage = "TEST")
          /\ (driver = "VALID" /\ driver' = "VALID_END") =>
                Len(ckpts'.saved) = Len(ckpts.saved) + 1
          /\ ckpts' # ckpts => (driver = "VALID" /\ driver' = "VALID_END")
       ]_vars

\* two epochs with training and validation batches, then a TEST stage that
\* ended after its batches: their files, and two checkpoints
C14_Witness ==
    /\ driver = "TEST_END" /\ epoch = 2
    /\ Cardinality(files) = MaxStageBatches
    /\ Len(ckpts.saved) = 2
    /\ Len(metrics.stoi.ids) = MaxStageBatches
    /\ Len(train_stats[1].loss_g3) = MaxStageBatches

\* C20: with TRAIN start/end followed by VALID start/end in every epoch, no
\* stage end fails on an absent train loss or train statistics; the train
\* loss a VALID end logs for epoch e is the one the TRAIN end of epoch e
\* recorded, and the train statistics it logs are those of the TRAIN batches
\* of epoch e; a TEST end logs its own statistics and nothing of training,
\* and completes even when no training has run
C20_ValidEndReadsThisEpochsTraining ==
    /\ driver # "AttributeError"
    /\ \A i \in 1 .. Len(logs) :
          LET rec == logs[i]
          IN  /\ (rec.stage = "VALID" /\ rec.logger = "train_logger") =>
                    rec.train_stats.loss = StageLoss("TRAIN", rec.epoch)
              /\ (rec.stage = "VALID" /\ rec.logger = "tensorboard") =>
                    \A k \in {"loss_d1", "loss_d2", "loss_g3"} :
                       FromStage(rec.train_stats[k], "TRAIN", rec.epoch)
              /\ rec.stage = "TEST" =>
                    /\ DOMAIN rec = {"logger", "stage", "epoch_loaded", "test_stats"}
                    /\ rec.test_stats.loss = StageLoss("TEST", rec.epoch_loaded)
                    /\ DOMAIN rec.test_stats = {"loss", "pesq", "stoi"}
    /\ (driver \in {"VALID", "VALID_END"}) =>
          /\ train_loss = Attr(StageLoss("TRAIN", epoch))
          /\ train_stats # NoAttr

\* the VALID stage of the second epoch ended and logged, to both loggers,
\* the training loss and statistics of the second epoch
C20_Witness ==
    /\ driver = "VALID_END" /\ epoch = 2 /\ Len(logs) = 4
    /\ logs[4].train_stats.loss.epoch = 2
    /\ Len(logs[3].train_stats.loss_d1) = MaxStageBatches
    /\ logs[2].train_stats.loss.epoch = 1

\* C16: once init_optimizers has run with an optimizer constructor, there
\* are exactly two optimizers, both made by that constructor, optimizer_g
\* over the generator's parameters and optimizer_d over the
\* discriminator's; with a checkpointer, exactly these two are registered,
\* each under its own name (optimizer_g, optimizer_d)
C16_TwoOptimizersRegistered ==
    (optimizers.called /\ optimizers.opt_class # "None") =>
       /\ DOMAIN optimizers.built = {"optimizer_d", "optimizer_g"}
       /\ optimizers.built.optimizer_g = NewOptimizer(optimizers.opt_class, "g")
       /\ optimizers.built.optimizer_d = NewOptimizer(optimizers.opt_class, "d")
       /\ optimizers.checkpointer =>
             /\ DOMAIN optimizers.recoverables = {"optimizer_d", "optimizer_g"}
             /\ \A n \in DOMAIN optimizers.recoverables :
                   optimizers.recoverables[n] = optimizers.built[n]
             /\ optimizers.recoverables.optimizer_g # optimizers.recoverables.optimizer_d

\* init_optimizers has run with a constructor and a checkpointer
C16_Witness ==
    /\ optimizers.called /\ optimizers.opt_class = "opt_class"
    /\ optimizers.checkpointer
    /\ optimizers.recoverables.optimizer_g.params = "g"
    /\ optimizers.recoverables.optimizer_d.params = "d"

\* s holds the items of t, each as often, ordered by length
SortedByLength(s, t, reverse) ==
    /\ Len(s) = Len(t)
    /\ \A x \in {t[i] : i \in DOMAIN t} : \E i \in DOMAIN s : s[i] = x
    /\ \A i \in 1 .. Len(s) - 1 :
          IF reverse THEN s[i].length >= s[i + 1].length
                     ELSE s[i].length <= s[i + 1].length

\* C17: dataio_prep raises exactly when sorting is none of random,
\* ascending, descending (and then changes nothing); for ascending and
\* descending the train set is the annotated items sorted by length,
\* shortest resp. longest first, and the shuffle option is False, the other
\* options as before; for random the train set is in file order and the
\* options are untouched
C17_SortingModes ==
    [][(datasets.status = "none" /\ datasets'.status # "none") =>
          LET srt == hparams.sorting
          IN  /\ datasets'.status = "NotImplementedError"
                    <=> srt \notin {"random", "ascending", "descending"}
              /\ datasets'.status = "NotImplementedError" => hparams' = hparams
              /\ srt \in {"ascending", "descending"} =>
                    /\ datasets'.status = "ready"
                    /\ SortedByLength(datasets'.train, datasets.annotation,
                                      srt = "descending")
                    /\ hparams'.dataloader_options.shuffle = FALSE
                    /\ hparams'.dataloader_options.batch_size
                          = hparams.dataloader_options.batch_size
                    /\ hparams'.sorting = srt
              /\ srt = "random" =>
                    /\ datasets'.status = "ready"
                    /\ datasets'.train = datasets.annotation
                    /\ hparams' = hparams
      ]_vars

\* a descending sort has reordered three items and left shuffling off
C17_Witness ==
    /\ datasets.status = "ready" /\ hparams.sorting = "descending"
    /\ Len(datasets.annotation) = 3
    /\ datasets.annotation[1].length = 1 /\ datasets.annotation[2].length = 2
    /\ datasets.train[1].length = 2
    /\ hparams.dataloader_options.shuffle = FALSE

====
